---- MODULE Spec2Model ----
(***************************************************************************)
(* process_watcher.py: watch a set of OS processes (given by PID or by     *)
(* command pattern), send a notification through every loaded sink when a  *)
(* watched process ends, optionally keep discovering new matches.          *)
(*                                                                         *)
(* The program is one thread; the operating system changes the process     *)
(* table concurrently (Spawn, Exit), so the script is cut into steps at    *)
(* every point where it reads the process table or calls a sink.           *)
(***************************************************************************)
EXTENDS Integers, Sequences, FiniteSets, TLC

\* ------------------------------------------------------------- bounds
\* PIDs the OS hands out, and processes that ever run during one execution
\* (those running when the program starts included).
NumPids == 2
MaxProcs == 2

Pids == 1..NumPids
None == [start |-> -1, match |-> FALSE]

\* The -p lists tried: none, two PIDs, the same PID twice.
PidArgChoices == { << >>, <<2, 1>>, <<1, 1>> }

VARIABLES
    os,          \* OS process table: pid -> None or [start, match]
    clock,       \* number of processes that have run so far
    args,        \* parsed arguments [pid, command, watch_new, to, notify]
    pc,          \* position of the script
    comms,       \* loaded sinks, in load order
    processes,   \* the dict pid -> ProcessByPID, as its items in insertion order
    to_delete,   \* PIDs found stopped in the current scan
    watch_new,   \* args.watch_new and len(command_regexs) > 0
    i,           \* position of the scan in processes.items()
    j,           \* position of the dispatch in comms
    k,           \* position in args.pid during initial resolution
    enum,        \* PIDs the pattern generator has still to inspect
    cand,        \* PID the pattern generator has just yielded (0: none)
    exit,        \* how the program ended ("none" while it runs)
    sent,        \* every delivered notification, in order: [pid, start, sink]
    hist         \* history, read by the properties only:
                 \*   tickStart  processes when the current tick's scan began
                 \*   scanned    check() results of the current tick, in order
                 \*   born       with discovery on: running matching processes spawned since
                 \*              the last discovery (or startup) pass was over
                 \*   wake       born, as it was when the sleep before this tick ended
                 \*   seenAlive  handles some scan has found running
                 \*   kept       given or yielded PIDs found already in processes
                 \*   initial    processes when initial resolution was over
                 \*   failed     [pid, start, sink] of every send that raised
                 \*   missed     processes that were in born when they ended

vars == << os, clock, args, pc, comms, processes, to_delete, watch_new, i, j, k,
           enum, cand, exit, sent, hist >>

\* ------------------------------------------------------------ helpers
Range(s) == { s[n] : n \in 1..Len(s) }

RECURSIVE SeqOfSet(_)
SeqOfSet(S) ==
    IF S = {} THEN << >>
    ELSE LET m == CHOOSE x \in S : \A y \in S : x <= y
         IN  << m >> \o SeqOfSet(S \ {m})

\* `pid in processes`
HasKey(d, pid) == \E n \in 1..Len(d) : d[n].pid = pid

Keys(d) == { d[n].pid : n \in 1..Len(d) }

\* `processes[pid] = handle`: replaces the value of an existing key in place,
\* appends a new key.
DictSet(d, h) ==
    IF HasKey(d, h.pid)
    THEN [n \in 1..Len(d) |-> IF d[n].pid = h.pid THEN h ELSE d[n]]
    ELSE Append(d, h)

\* `del processes[pid]` for every pid of dels
DictDel_All(d, dels) == IF dels = << >> THEN d ELSE << >>
DictDel(d, dels) == SelectSeq(d, LAMBDA h : h.pid \notin Range(dels))

\* ProcessByPID(pid): the snapshot taken at creation; NoProcessFound when no
\* process holds the PID.
Exists(pid) == os[pid] # None
ProcessByPID(pid) == [pid |-> pid, start |-> os[pid].start]

\* ProcessByPID.check(): alive iff a process holds the PID and it is the one
\* of the snapshot.
Check(h) == os[h.pid] # None /\ os[h.pid].start = h.start

\* ProcessIDs(): the PIDs listed by one enumeration of the process table.
ProcessIDs == SeqOfSet({ p \in Pids : os[p] # None })

\* what pids_with_command_name reads for one listed PID: TRUE iff the process
\* is still there and its command line matches one of the patterns.
CommandMatches(pid) == os[pid] # None /\ os[pid].match

\* comm.send(...) delivers the event or fails; a failure is an exception.
SendOutcomes == {"delivered", "raised"}

\* How the program can end, and the exit status of each way:
\*   sink_load          sys.exit(1) after a failed import of a sink module
\*   no_process         sys.exit(1) after NoProcessFound for an explicit PID
\*   init_raise         NoProcessFound out of the initial pattern loop, uncaught
\*   nothing            sys.exit() of "No processes found to watch."
\*   drained            sys.exit() of the poll loop
\*   interrupt          KeyboardInterrupt caught around the poll loop
\*   interrupt_startup  KeyboardInterrupt before the try block, uncaught
\*   send_raise         an exception out of comm.send, uncaught
\*   disc_raise         NoProcessFound out of the discovery loop, uncaught
Status(how) ==
    IF how \in {"nothing", "drained", "interrupt"} THEN 0 ELSE 1

Ended == exit # "none"

InLoop == pc \in {"sleep", "scan", "send", "branch", "disc_match", "disc_add"}

Stop(how) ==
    /\ pc' = "done"
    /\ exit' = how

\* The history of a tick is dropped when the tick is over.
EndTick(h) ==
    [h EXCEPT !.tickStart = << >>, !.scanned = << >>, !.wake = {}, !.kept = {},
              !.seenAlive = @ \cap Range(processes)]

\* --------------------------------------------------------------- Init
\* A command line can match only when a pattern was given (args.command says
\* whether the -c list is non-empty; no pattern matches nothing).
Init ==
    /\ args \in [pid : PidArgChoices, command : BOOLEAN, watch_new : BOOLEAN,
                 to : BOOLEAN, notify : BOOLEAN]
    /\ os \in [Pids -> { None, [start |-> 0, match |-> TRUE], [start |-> 0, match |-> FALSE] }]
    /\ \A p \in Pids : os[p].match => args.command
    /\ clock = Cardinality({ p \in Pids : os[p] # None })
    /\ clock <= MaxProcs
    /\ pc = "load_email"
    /\ comms = << >>
    /\ processes = << >>
    /\ to_delete = << >>
    /\ watch_new = FALSE
    /\ i = 1
    /\ j = 1
    /\ k = 1
    /\ enum = << >>
    /\ cand = 0
    /\ exit = "none"
    /\ sent = << >>
    /\ hist = [tickStart |-> << >>, scanned |-> << >>, wake |-> {},
               born |-> {},
               seenAlive |-> {}, kept |-> {}, initial |-> << >>, failed |-> {},
               missed |-> {}]

\* ------------------------------------------------------ the environment
\* The steps that read the process table. An OS event during any other step
\* is observed by the program exactly as the same event just before the next
\* of these, so the process table moves only here.
ReadsTable ==
    \/ pc \in {"init_pids", "init_match", "init_add", "sleep", "disc_match", "disc_add"}
    \/ pc = "scan" /\ i <= Len(processes)
    \/ pc = "branch" /\ watch_new

\* With discovery on: the stretch from the end of one enumeration-and-add pass
\* (the startup one included) to the enumeration of the next.
Between == watch_new /\ pc \in {"sleep", "scan", "send", "branch"}

\* The OS starts a process under a free PID; its start time is new.
Spawn ==
    /\ ~Ended
    /\ ReadsTable
    /\ clock < MaxProcs
    /\ \E p \in Pids, m \in BOOLEAN :
        /\ m => args.command
        /\ os[p] = None
        /\ os' = [os EXCEPT ![p] = [start |-> clock + 1, match |-> m]]
        /\ hist' = IF Between /\ m
                   THEN [hist EXCEPT !.born = @ \cup {[pid |-> p, start |-> clock + 1]}]
                   ELSE hist
    /\ clock' = clock + 1
    /\ UNCHANGED << args, pc, comms, processes, to_delete, watch_new, i, j, k,
                    enum, cand, exit, sent >>

\* A process ends.
Exit ==
    /\ ~Ended
    /\ ReadsTable
    /\ \E p \in Pids :
        /\ os[p] # None
        /\ os' = [os EXCEPT ![p] = None]
        /\ hist' = IF Between /\ ProcessByPID(p) \in hist.born
                   THEN [hist EXCEPT !.born = @ \ {ProcessByPID(p)},
                                     !.missed = @ \cup {ProcessByPID(p)}]
                   ELSE hist
    /\ UNCHANGED << clock, args, pc, comms, processes, to_delete, watch_new, i, j, k,
                    enum, cand, exit, sent >>

\* Ctrl-C. Inside the try block it is caught and the script falls off its end;
\* before the try block nothing catches it. The interpreter is gone after it:
\* the loop positions are dropped and the process table is no longer followed.
Interrupt ==
    /\ ~Ended
    /\ Stop(IF InLoop THEN "interrupt" ELSE "interrupt_startup")
    /\ os' = [p \in Pids |-> None]
    /\ i' = 1
    /\ j' = 1
    /\ k' = 1
    /\ enum' = << >>
    /\ cand' = 0
    /\ hist' = [hist EXCEPT !.born = {}, !.wake = {}]
    /\ UNCHANGED << clock, args, comms, processes, to_delete, watch_new, sent >>

\* ------------------------------------------------------------- startup
\* if args.to: import communicate.email, or exit(1)
LoadEmail ==
    /\ pc = "load_email"
    /\ \/ /\ ~args.to
          /\ pc' = "load_notify"
          /\ UNCHANGED << comms, exit >>
       \/ /\ args.to
          /\ comms' = Append(comms, "email")
          /\ pc' = "load_notify"
          /\ UNCHANGED exit
       \/ /\ args.to
          /\ Stop("sink_load")
          /\ UNCHANGED comms
    /\ UNCHANGED << os, clock, args, processes, to_delete, watch_new, i, j, k,
                    enum, cand, sent, hist >>

LoadNotify_Proceed ==
    /\ pc = "load_notify"
    /\ pc' = "init_pids"
    /\ \/ /\ args.notify
          /\ comms' = Append(comms, "dbus_notify")
       \/ comms' = comms
    /\ UNCHANGED << os, clock, args, processes, to_delete, watch_new, i, j, k,
                    enum, cand, exit, sent, hist >>

\* if args.notify: import communicate.dbus_notify, or exit(1)
LoadNotify ==
    /\ pc = "load_notify"
    /\ \/ /\ ~args.notify
          /\ pc' = "init_pids"
          /\ UNCHANGED << comms, exit >>
       \/ /\ args.notify
          /\ comms' = Append(comms, "dbus_notify")
          /\ pc' = "init_pids"
          /\ UNCHANGED exit
       \/ /\ args.notify
          /\ Stop("sink_load")
          /\ UNCHANGED comms
    /\ UNCHANGED << os, clock, args, processes, to_delete, watch_new, i, j, k,
                    enum, cand, sent, hist >>

InitPid_SkipMissing ==
    /\ pc = "init_pids"
    /\ IF k <= Len(args.pid)
       THEN /\ k' = k + 1
            /\ processes' = IF ~HasKey(processes, args.pid[k]) /\ Exists(args.pid[k])
                             THEN DictSet(processes, ProcessByPID(args.pid[k]))
                             ELSE processes
            /\ UNCHANGED << pc, exit, enum, hist >>
       ELSE IF args.command
       THEN /\ enum' = ProcessIDs
            /\ pc' = "init_match"
            /\ UNCHANGED << exit, processes, k, hist >>
       ELSE /\ pc' = "startup_check"
            /\ UNCHANGED << exit, processes, k, enum, hist >>
    /\ UNCHANGED << os, clock, args, comms, to_delete, watch_new, i, j, cand, sent >>

\* for pid in args.pid: one iteration; after the last one, command_regexs is
\* built and, when not empty, the process table is enumerated.
InitPid ==
    /\ pc = "init_pids"
    /\ IF k <= Len(args.pid)
       THEN LET pid == args.pid[k] IN
            IF HasKey(processes, pid)
            THEN /\ k' = k + 1
                 /\ hist' = [hist EXCEPT !.kept = @ \cup {pid}]
                 /\ UNCHANGED << pc, exit, processes, enum >>
            ELSE IF Exists(pid)
            THEN /\ processes' = DictSet(processes, ProcessByPID(pid))
                 /\ k' = k + 1
                 /\ UNCHANGED << pc, exit, enum, hist >>
            ELSE /\ Stop("no_process")
                 /\ UNCHANGED << processes, k, enum, hist >>
       ELSE IF args.command
       THEN /\ enum' = ProcessIDs
            /\ pc' = "init_match"
            /\ UNCHANGED << exit, processes, k, hist >>
       ELSE /\ pc' = "startup_check"
            /\ UNCHANGED << exit, processes, k, enum, hist >>
    /\ UNCHANGED << os, clock, args, comms, to_delete, watch_new, i, j, cand, sent >>

\* The generator pids_with_command_name advances by one listed PID: it yields
\* the PID when the command line matches and skips it otherwise (also when the
\* process is gone); when the list is exhausted the for loop ends.
MatchStep(here, body, after) ==
    /\ pc = here
    /\ IF enum = << >>
       THEN /\ pc' = after
            /\ hist' = IF after = "sleep" THEN EndTick(hist) ELSE hist
            /\ UNCHANGED << enum, cand >>
       ELSE /\ enum' = Tail(enum)
            /\ IF CommandMatches(Head(enum))
               THEN /\ cand' = Head(enum)
                    /\ pc' = body
               ELSE /\ UNCHANGED << cand, pc >>
            /\ UNCHANGED hist

\* The loop body for a yielded PID:
\*   if pid not in processes: processes[pid] = ProcessByPID(pid)
\* NoProcessFound is caught by nothing here.
AddStep_NoGuard(here, back, raise) ==
    /\ pc = here
    /\ cand' = 0
    /\ IF Exists(cand)
       THEN /\ processes' = DictSet(processes, ProcessByPID(cand))
            /\ pc' = back
            /\ UNCHANGED << exit, hist >>
       ELSE /\ Stop(raise)
            /\ UNCHANGED << processes, hist >>

AddStep(here, back, raise) ==
    /\ pc = here
    /\ cand' = 0
    /\ IF HasKey(processes, cand)
       THEN /\ pc' = back
            /\ hist' = [hist EXCEPT !.kept = @ \cup {cand}]
            /\ UNCHANGED << processes, exit >>
       ELSE IF Exists(cand)
       THEN /\ processes' = DictSet(processes, ProcessByPID(cand))
            /\ pc' = back
            /\ UNCHANGED << exit, hist >>
       ELSE /\ Stop(raise)
            /\ UNCHANGED << processes, hist >>

InitMatch ==
    /\ MatchStep("init_match", "init_add", "startup_check")
    /\ UNCHANGED << os, clock, args, comms, processes, to_delete, watch_new, i, j, k,
                    exit, sent >>

InitAdd ==
    /\ AddStep("init_add", "init_match", "init_raise")
    /\ UNCHANGED << os, clock, args, comms, to_delete, watch_new, i, j, k, enum, sent >>

StartupCheck_ExitWhenEmpty ==
    /\ pc = "startup_check"
    /\ watch_new' = (args.watch_new /\ args.command)
    /\ to_delete' = << >>
    /\ hist' = [hist EXCEPT !.initial = processes, !.kept = {}]
    /\ IF processes = << >>
       THEN Stop("nothing")
       ELSE /\ pc' = "sleep"
            /\ UNCHANGED exit
    /\ UNCHANGED << os, clock, args, comms, processes, i, j, k, enum, cand, sent >>

StartupCheck_IgnorePatterns ==
    /\ pc = "startup_check"
    /\ watch_new' = args.watch_new
    /\ to_delete' = << >>
    /\ hist' = [hist EXCEPT !.initial = processes, !.kept = {}]
    /\ IF processes = << >> /\ ~watch_new'
       THEN Stop("nothing")
       ELSE /\ pc' = "sleep"
            /\ UNCHANGED exit
    /\ UNCHANGED << os, clock, args, comms, processes, i, j, k, enum, cand, sent >>

StartupCheck_NoExit ==
    /\ pc = "startup_check"
    /\ watch_new' = (args.watch_new /\ args.command)
    /\ to_delete' = << >>
    /\ hist' = [hist EXCEPT !.initial = processes, !.kept = {}]
    /\ pc' = "sleep"
    /\ UNCHANGED << os, clock, args, comms, processes, i, j, k, enum, cand, exit, sent >>

\* watch_new = args.watch_new and len(command_regexs) > 0
\* if not processes and not watch_new: sys.exit()
\* otherwise the try block is entered: to_delete = []
StartupCheck ==
    /\ pc = "startup_check"
    /\ watch_new' = (args.watch_new /\ args.command)
    /\ to_delete' = << >>
    /\ hist' = [hist EXCEPT !.initial = processes, !.kept = {}]
    /\ IF processes = << >> /\ ~watch_new'
       THEN Stop("nothing")
       ELSE /\ pc' = "sleep"
            /\ UNCHANGED exit
    /\ UNCHANGED << os, clock, args, comms, processes, i, j, k, enum, cand, sent >>

\* ----------------------------------------------------------- poll loop
Sleep_Discovers ==
    /\ pc = "sleep"
    /\ pc' = "scan"
    /\ i' = 1
    /\ processes' = processes \o
           [n \in 1..Len(SeqOfSet({ p \in Pids : CommandMatches(p) /\ ~HasKey(processes, p) }))
              |-> ProcessByPID(SeqOfSet({ p \in Pids : CommandMatches(p) /\ ~HasKey(processes, p) })[n])]
    /\ hist' = [hist EXCEPT !.tickStart = processes', !.wake = hist.born]
    /\ UNCHANGED << os, clock, args, comms, to_delete, watch_new, j, k,
                    enum, cand, exit, sent >>

\* time.sleep(args.interval), then the scan of processes.items() begins.
Sleep ==
    /\ pc = "sleep"
    /\ pc' = "scan"
    /\ i' = 1
    /\ hist' = [hist EXCEPT !.tickStart = processes, !.wake = hist.born]
    /\ UNCHANGED << os, clock, args, comms, processes, to_delete, watch_new, j, k,
                    enum, cand, exit, sent >>

\* One iteration of the scan: running = process.check(); a stopped process is
\* queued in to_delete and dispatched to the sinks.
ScanStep(running) ==
    /\ pc = "scan"
    /\ i <= Len(processes)
    /\ hist' = [hist EXCEPT !.scanned = Append(@, [h |-> processes[i], running |-> Check(processes[i])]),
                            !.seenAlive = IF Check(processes[i]) THEN @ \cup {processes[i]} ELSE @]
    /\ IF running
       THEN /\ i' = i + 1
            /\ UNCHANGED << to_delete, pc, j >>
       ELSE /\ to_delete' = Append(to_delete, processes[i].pid)
            /\ IF comms = << >>
               THEN /\ i' = i + 1
                    /\ UNCHANGED << pc, j >>
               ELSE /\ pc' = "send"
                    /\ j' = 1
                    /\ UNCHANGED i
    /\ UNCHANGED << os, clock, args, comms, processes, watch_new, k,
                    enum, cand, exit, sent >>

ScanCheck_RawExistence == ScanStep(Exists(processes[i].pid))

ScanCheck_NotifyAlways == ScanStep(FALSE)

ScanCheck == ScanStep(Check(processes[i]))

\* comm.send(process=process, **send_args) for the next sink: it delivers, or
\* it raises and nothing in the script catches that.
Send ==
    /\ pc = "send"
    /\ \E outcome \in SendOutcomes :
        IF outcome = "delivered"
        THEN /\ sent' = Append(sent, [pid |-> processes[i].pid, start |-> processes[i].start,
                                       sink |-> comms[j]])
             /\ IF j < Len(comms)
                THEN /\ j' = j + 1
                     /\ UNCHANGED << pc, i >>
                ELSE /\ pc' = "scan"
                     /\ i' = i + 1
                     /\ UNCHANGED j
             /\ UNCHANGED << exit, hist >>
        ELSE /\ Stop("send_raise")
             /\ hist' = [hist EXCEPT !.failed = @ \cup {[pid |-> processes[i].pid,
                                 start |-> processes[i].start, sink |-> comms[j]]}]
             /\ UNCHANGED << sent, i, j >>
    /\ UNCHANGED << os, clock, args, comms, processes, to_delete, watch_new, k, enum, cand >>

Delete_NoClear ==
    /\ pc = "scan"
    /\ i > Len(processes)
    /\ processes' = DictDel(processes, to_delete)
    /\ pc' = "branch"
    /\ UNCHANGED << os, clock, args, comms, to_delete, watch_new, i, j, k, enum, cand,
                    exit, sent, hist >>

\* After the scan: if to_delete: del processes[pid] for each; to_delete.clear()
Delete ==
    /\ pc = "scan"
    /\ i > Len(processes)
    /\ processes' = DictDel(processes, to_delete)
    /\ to_delete' = << >>
    /\ pc' = "branch"
    /\ UNCHANGED << os, clock, args, comms, watch_new, i, j, k, enum, cand, exit, sent, hist >>

\* if watch_new: the process table is enumerated for the discovery loop
\* elif not processes: sys.exit()
Branch ==
    /\ pc = "branch"
    /\ IF watch_new
       THEN /\ enum' = ProcessIDs
            /\ pc' = "disc_match"
            /\ hist' = [hist EXCEPT !.born = {}]
            /\ UNCHANGED exit
       ELSE IF processes = << >>
       THEN /\ Stop("drained")
            /\ UNCHANGED << enum, hist >>
       ELSE /\ pc' = "sleep"
            /\ hist' = EndTick(hist)
            /\ UNCHANGED << exit, enum >>
    /\ UNCHANGED << os, clock, args, comms, processes, to_delete, watch_new, i, j, k,
                    cand, sent >>

DiscMatch ==
    /\ MatchStep("disc_match", "disc_add", "sleep")
    /\ UNCHANGED << os, clock, args, comms, processes, to_delete, watch_new, i, j, k,
                    exit, sent >>

DiscAdd ==
    /\ AddStep("disc_add", "disc_match", "disc_raise")
    /\ UNCHANGED << os, clock, args, comms, to_delete, watch_new, i, j, k, enum, sent >>

Next ==
    \/ Spawn
    \/ Exit
    \/ Interrupt
    \/ LoadEmail
    \/ LoadNotify
    \/ InitPid
    \/ InitMatch
    \/ InitAdd
    \/ StartupCheck
    \/ Sleep
    \/ ScanCheck
    \/ Send
    \/ Delete
    \/ Branch
    \/ DiscMatch
    \/ DiscAdd

Spec == Init /\ [][Next]_vars

\* ============================================================ properties
HandleOf(e) == [pid |-> e.pid, start |-> e.start]

\* number of delivered notifications for handle h through sink s
Count(h, s) ==
    Cardinality({ n \in 1..Len(sent) : sent[n] = [pid |-> h.pid, start |-> h.start, sink |-> s] })

\* handles the current tick's scan has found stopped / running
FoundGone == { hist.scanned[n].h : n \in { m \in 1..Len(hist.scanned) : ~hist.scanned[m].running } }
FoundAlive == { hist.scanned[n].h : n \in { m \in 1..Len(hist.scanned) : hist.scanned[m].running } }

\* the sinks are still being called for handle h
Dispatching(h) == pc = "send" /\ processes[i] = h

\* the removal step of the current tick is over
Removed == pc \in {"branch", "disc_match", "disc_add"}

\* the OS process a handle or spawn record r stands for is running
Runs(r) == os[r.pid] # None /\ os[r.pid].start = r.start

Unique(d) == \A m, n \in 1..Len(d) : d[m].pid = d[n].pid => m = n

\* C1: a watched process that an earlier scan found alive and the current scan
\* finds gone gets exactly one notification per registered sink in this tick
\* and its handle is removed in this tick; no notification is ever sent twice.
\* (Runs ended by Ctrl-C are left to C13.)
C1_ExactlyOneNotification ==
    /\ \A m, n \in 1..Len(sent) : sent[m] = sent[n] => m = n
    /\ \A h \in FoundGone \cap hist.seenAlive :
          (exit # "interrupt" /\ ~Dispatching(h)) =>
              /\ \A s \in Range(comms) : Count(h, s) = 1
              /\ Removed => h \notin Range(processes)

C3_SinkFailureIsolated ==
    \A f \in hist.failed :
        /\ exit # "send_raise"
        /\ ~Dispatching(HandleOf(f)) =>
              \A s \in Range(comms) \ {f.sink} :
                  \/ Count(HandleOf(f), s) = 1
                  \/ [pid |-> f.pid, start |-> f.start, sink |-> s] \in hist.failed

\* C4: apart from Ctrl-C and startup failures the program leaves the poll loop
\* only by the termination check, with discovery disabled and WatchSet empty.
LoopLeft == exit \in {"drained", "send_raise", "disc_raise"}

\* the try block around the poll loop has been entered
LoopEntered == InLoop \/ LoopLeft \/ exit = "interrupt"

C4_StopsOnlyWhenDrained ==
    LoopLeft => exit = "drained" /\ ~watch_new /\ processes = << >>

\* C5: with discovery disabled and a non-empty initial WatchSet, a run that ends
\* without Ctrl-C ends with success status in a tick whose scan detected an
\* exit, with one notification per initially watched process for every sink.
C5_DrainsWithAllNotified ==
    (hist.initial # << >> /\ ~watch_new /\ Ended /\ exit # "interrupt") =>
        /\ exit = "drained"
        /\ Status(exit) = 0
        /\ FoundGone # {}
        /\ \A s \in Range(comms) :
              Cardinality({ n \in 1..Len(sent) : sent[n].sink = s }) = Len(hist.initial)

\* C6: with discovery enabled the loop, once entered, is left by Ctrl-C only.
C6_NeverStopsWhileDiscovering ==
    watch_new => exit \in {"none", "interrupt"}

\* C7: when the discovery step of a tick is over, every matching process that
\* was spawned during the sleep before the tick and is still running is in
\* WatchSet, with its own snapshot.
C7_SpawnedMatchIsWatched ==
    ((pc = "disc_match" /\ enum = << >>) \/ exit = "disc_raise") =>
        \A w \in hist.wake :
            (Runs(w) /\ os[w.pid].match) => w \in Range(processes)

\* C8: processes never holds a PID twice, and while a PID stays in processes its
\* handle (the snapshot) stays the same: adding a present PID changes nothing.
C8_OneHandlePerIdentity ==
    [][ /\ Unique(processes')
        /\ \A h \in Range(processes) :
              h.pid \in Keys(processes') => h \in Range(processes')
      ]_vars

\* a PID was given or yielded again while its handle was kept, and by now
\* another process holds that PID
C8_Witness ==
    \E h \in Range(processes) :
        /\ h.pid \in hist.kept
        /\ Exists(h.pid)
        /\ os[h.pid].start # h.start

\* C9: the only step that sends is the dispatch of the scan, one notification
\* at a time, for a handle that was in WatchSet when the tick began and that
\* this tick's check() found stopped; resolution and discovery never send.
C9_OnlyTerminationNotifies ==
    [][ sent' # sent =>
          /\ pc = "send"
          /\ Len(sent') = Len(sent) + 1
          /\ SubSeq(sent', 1, Len(sent)) = sent
          /\ HandleOf(sent'[Len(sent')]) \in FoundGone
          /\ HandleOf(sent'[Len(sent')]) \in Range(hist.tickStart)
          /\ sent'[Len(sent')].sink \in Range(comms)
      ]_vars

\* a notification was sent, and a handle added by discovery got none
C9_Witness ==
    /\ sent # << >>
    /\ \E h \in Range(processes) :
          /\ h \notin Range(hist.initial)
          /\ \A s \in Range(comms) : Count(h, s) = 0

\* C10: handles are added by the resolution and discovery steps only (by
\* discovery only when it is enabled), removed by the removal step only and
\* only when this tick's check() found them stopped; a handle found alive stays
\* in WatchSet as it is, and without discovery WatchSet never leaves the
\* initial set.
C10_WatchSetFrame ==
    /\ [][ /\ \A h \in Range(processes') \ Range(processes) :
                 /\ pc \in {"init_pids", "init_add", "disc_add"}
                 /\ pc = "disc_add" => watch_new
           /\ \A h \in Range(processes) \ Range(processes') :
                 /\ pc = "scan"
                 /\ i > Len(processes)
                 /\ h \in FoundGone
         ]_vars
    /\ [](\A h \in FoundAlive : h \in Range(processes))
    /\ []((LoopEntered /\ ~watch_new) => Range(processes) \subseteq Range(hist.initial))

\* the removal step took a stopped handle out and left a running one in
C10_Witness ==
    /\ pc = "branch"
    /\ FoundGone # {}
    /\ FoundAlive # {}
    /\ FoundAlive \subseteq Range(processes)
    /\ FoundGone \cap Range(processes) = {}

\* C11: an explicit PID that no process holds when it is resolved ends the run
\* at once with failure status, whatever was resolved before it: the poll loop
\* is never entered, no pattern is resolved and no sink is called.
C11_MissingPidIsFatal ==
    /\ [][ ( /\ pc = "init_pids"
             /\ k <= Len(args.pid)
             /\ ~HasKey(processes, args.pid[k])
             /\ ~Exists(args.pid[k])
             /\ os' = os
             /\ exit' # "interrupt_startup" )
           => /\ exit' = "no_process"
              /\ pc' = "done"
              /\ processes' = processes
         ]_vars
    /\ [](exit = "no_process" =>
             /\ Status(exit) = 1
             /\ ~LoopEntered
             /\ sent = << >>
             /\ enum = << >> /\ cand = 0
             /\ hist.scanned = << >>)

\* the second -p PID was missing after the first had been resolved
C11_Witness ==
    /\ exit = "no_process"
    /\ processes # << >>
    /\ k = 2

\* C12: a pattern-matched identity that no process holds any more when it is
\* resolved is skipped, at startup and at discovery alike: the run goes on to
\* the next listed identity, with the WatchSet as it was.
C12_VanishedMatchSkipped ==
    [][ ( /\ pc \in {"init_add", "disc_add"}
          /\ ~HasKey(processes, cand)
          /\ ~Exists(cand)
          /\ os' = os
          /\ exit' \notin {"interrupt", "interrupt_startup"} )
        => /\ exit' = "none"
           /\ processes' = processes
           /\ pc' = IF pc = "init_add" THEN "init_match" ELSE "disc_match"
      ]_vars

\* C13: a run ended by an interrupt in the loop has success status, and every
\* handle found terminated in the tick the interrupt fell into has been
\* delivered once to every registered sink.
C13_InterruptKeepsNotifications ==
    exit = "interrupt" =>
        /\ Status(exit) = 0
        /\ \A h \in FoundGone : \A s \in Range(comms) : Count(h, s) = 1

\* C15: when the WatchSet is empty after initial resolution and discovery was
\* not requested, the run ends at that point: no tick is run, so no handle is
\* checked and no sink is called.
C15_EmptyStartEndsRun ==
    /\ [][ ( /\ pc = "startup_check"
             /\ processes = << >>
             /\ ~args.watch_new
             /\ os' = os
             /\ exit' # "interrupt_startup" )
           => /\ exit' = "nothing"
              /\ pc' = "done"
              /\ sent' = sent
         ]_vars
    /\ [](exit = "nothing" =>
             /\ processes = << >>
             /\ ~LoopEntered
             /\ hist.tickStart = << >> /\ hist.scanned = << >>
             /\ sent = << >>)

\* nothing matched the patterns, sinks were registered, -w was not given
C15_Witness ==
    /\ exit = "nothing"
    /\ ~args.watch_new
    /\ args.command
    /\ comms # << >>

\* C16: a requested sink that cannot be loaded ends the run with failure status
\* before anything is resolved or sent, so whenever the loop has been entered
\* the registered sinks are exactly the requested ones.
C16_SinkLoadFailureIsFatal ==
    /\ exit = "sink_load" =>
          /\ Status(exit) = 1
          /\ ~LoopEntered
          /\ processes = << >>
          /\ sent = << >>
    /\ LoopEntered =>
          /\ args.to <=> "email" \in Range(comms)
          /\ args.notify <=> "dbus_notify" \in Range(comms)

\* the email sink was registered and the desktop sink then failed to load
C16_Witness ==
    /\ exit = "sink_load"
    /\ comms = << "email" >>
    /\ args.notify

\* the identities found terminated so far in the tick, in scan order
GonePids ==
    LET gone == SelectSeq(hist.scanned, LAMBDA e : ~e.running)
    IN  [n \in 1..Len(gone) |-> gone[n].h.pid]

C18_LoopAlwaysEntered ==
    [][ ( /\ pc = "startup_check"
          /\ os' = os
          /\ exit' # "interrupt_startup" )
        => /\ pc' = "sleep"
           /\ exit' = "none"
      ]_vars

\* C18 amended: the loop is entered after initial resolution unless the
\* WatchSet is empty and discovery is not in effect; then the run ends at the
\* startup check with success status, before any tick. A loop entered without
\* discovery therefore started from a non-empty WatchSet.
C18_LoopEnteredUnlessNothing ==
    /\ [][ ( /\ pc = "startup_check"
             /\ os' = os
             /\ exit' # "interrupt_startup" )
           => IF processes = << >> /\ ~(args.watch_new /\ args.command)
              THEN /\ exit' = "nothing"
                   /\ pc' = "done"
                   /\ Status(exit') = 0
              ELSE /\ pc' = "sleep"
                   /\ exit' = "none"
                   /\ processes' = processes
         ]_vars
    /\ []((LoopEntered /\ ~watch_new) => hist.initial # << >>)

\* no PID and no pattern was given: the run ended at the startup check
C18_Witness ==
    /\ exit = "nothing"
    /\ args.pid = << >>
    /\ ~args.command
    /\ hist.tickStart = << >>

\* C19: with -w but no pattern, discovery is not in effect: no pattern or
\* discovery step runs, the WatchSet never holds a handle that initial
\* resolution did not put there, a new tick starts only with a non-empty
\* WatchSet, and with no PID either the run ends at the startup check.
C19_DiscoveryNeedsPattern ==
    (args.watch_new /\ ~args.command) =>
        /\ ~watch_new
        /\ pc \notin {"init_match", "init_add", "disc_match", "disc_add"}
        /\ exit \notin {"init_raise", "disc_raise"}
        /\ LoopEntered => Range(processes) \subseteq Range(hist.initial)
        /\ pc = "sleep" => processes # << >>
        /\ exit = "drained" => processes = << >>
        /\ (args.pid = << >> /\ Ended) => exit \in {"nothing", "sink_load", "interrupt_startup"}

\* -w with PIDs only: the loop ended once the last watched process was gone
C19_Witness ==
    /\ args.watch_new
    /\ ~args.command
    /\ exit = "drained"
    /\ sent # << >>

\* C20: with discovery on, a process that starts after one enumeration-and-add
\* pass is over and ends before the next enumeration is never put in the
\* WatchSet and never notified, although its command line matches a pattern.
C20_ShortLivedNeverSeen ==
    \A u \in hist.missed :
        /\ watch_new
        /\ u \notin Range(processes)
        /\ u \notin hist.seenAlive
        /\ \A n \in 1..Len(sent) : HandleOf(sent[n]) # u

\* a matching process came and went within one interval, and the discovery
\* pass that followed is over
C20_Witness ==
    /\ pc = "sleep"
    /\ hist.missed # {}
    /\ sent # << >>

====
